---- MODULE Spec2Model ----
(***************************************************************************)
(* Delivery calendars of the storefront: the delivery-date estimator       *)
(* (calculateEstimate) with its caller getDeliveryOrdersForDate, as found  *)
(* in components/admin/DeliveryCalendar.tsx and                            *)
(* components/customer/CustomerDeliveryCalendar.tsx, and the delivery      *)
(* settings modal of the admin calendar.                                   *)
(*                                                                         *)
(* A JavaScript Date is an absolute instant.  Instants are counted here in *)
(* hours since 2023-12-01T00:00Z.  The getters and setters the code uses   *)
(* (getFullYear, getMonth, getDate, setDate, new Date(y, m, d)) work in    *)
(* the viewer's local time, at tzOffset hours from UTC; toISOString works  *)
(* in UTC.  The viewer's offset is fixed (no daylight-saving change inside *)
(* the days a run touches).                                                *)
(***************************************************************************)
EXTENDS Integers, Sequences, FiniteSets, TLC

(***************************************************************************)
(* Bounds of the model.                                                    *)
(***************************************************************************)
\* largest standard_delivery_days drawn for the estimator
MaxStd == 3
\* largest busy_day_penalty_days drawn for the estimator
MaxPen == 2
\* edits of the two number inputs of the settings modal in one run
MaxEdits == 1
\* clicks on Save in one run
MaxSaves == 2
\* clicks on the busy-day button in one run
MaxToggles == 2
\* clicks on Submit Request in one run
MaxSubmits == 1
\* edits and handler calls of the admin calendar in one run of all its
\* handlers together
MaxActions == 2
\* firings of the countdown interval that the render of AuthCallback lags
\* behind
MaxLateTicks == 2

(***************************************************************************)
(* The calendar: the months the model's days fall in, <<year, month,       *)
(* length>>, the first one starting at day 0.                              *)
(***************************************************************************)
Months == << <<2023, 12, 31>>, <<2024, 1, 31>>, <<2024, 2, 29>>,
             <<2024, 3, 31>>, <<2024, 4, 30>> >>

RECURSIVE MonthStart(_)
MonthStart(i) == IF i = 1 THEN 0 ELSE MonthStart(i - 1) + Months[i - 1][3]

MonthIndexOfDay(day) ==
    CHOOSE i \in 1..Len(Months) :
        MonthStart(i) <= day /\ day < MonthStart(i) + Months[i][3]

\* the civil date <<year, month 1..12, day of month>> of a day number
YMD(day) ==
    LET i == MonthIndexOfDay(day)
    IN  <<Months[i][1], Months[i][2], day - MonthStart(i) + 1>>

\* the day number of <<year, month 1..12, day of month>>
DayOfYMD(ymd) ==
    LET i == CHOOSE j \in 1..Len(Months) :
                 Months[j][1] = ymd[1] /\ Months[j][2] = ymd[2]
    IN  MonthStart(i) + ymd[3] - 1

(***************************************************************************)
(* The Date operations the components use.  t is an instant, tz the        *)
(* viewer's offset from UTC in hours.                                      *)
(***************************************************************************)
\* the viewer's local day number and local hour of instant t
LocalDay(t, tz) == (t + tz) \div 24
LocalHour(t, tz) == (t + tz) % 24

\* new Date(isoString) of a timestamp serialised with its UTC designator
\* (created_at): the instant of that UTC date and hour
ParseTimestamp(s) == DayOfYMD(s.date) * 24 + s.hour

\* d.getDate(): the day of the month, in local time
getDate(t, tz) == YMD(LocalDay(t, tz))[3]

\* d.setDate(v): day v of d's local month (overflowing into the next months),
\* keeping the local time of day
setDate(t, tz, v) ==
    LET firstOfMonth == LocalDay(t, tz) - (getDate(t, tz) - 1)
    IN  (firstOfMonth + v - 1) * 24 + LocalHour(t, tz) - tz

\* d.toISOString().split('T')[0]: the UTC date of the instant, as the
\* 'YYYY-MM-DD' text, here the triple <<YYYY, MM, DD>>
toISODateStr(t) == YMD(t \div 24)

\* <<d.getFullYear(), d.getMonth(), d.getDate()>>: local, month 0..11
getCivil(t, tz) ==
    LET c == YMD(LocalDay(t, tz)) IN <<c[1], c[2] - 1, c[3]>>

\* new Date(y, monthIndex, d): local midnight of that civil date
newLocalDate(y, monthIndex, d, tz) ==
    DayOfYMD(<<y, monthIndex + 1, d>>) * 24 - tz

(***************************************************************************)
(* calculateEstimate.  Its locals are the record                           *)
(* [deliveryDate, currentDate, busyDayCount, iterations]; iterations       *)
(* counts the passes of the while loop.                                    *)
(***************************************************************************)
\* the off-by-one variant: the standard days are added after the first
\* advance of the scan date
EstimateBegin_LateStart(orderCreatedAt, tz, settings) ==
    LET orderDate == ParseTimestamp(orderCreatedAt)
        first     == setDate(orderDate, tz, getDate(orderDate, tz) + 1)
    IN  [deliveryDate |-> setDate(first, tz,
                            getDate(first, tz) + settings.standard_delivery_days),
         currentDate  |-> first,
         busyDayCount |-> 0,
         iterations   |-> 0]

\* the variant whose scan starts on the placement date itself
EstimateBegin_ScanFromPlacement(orderCreatedAt, tz, settings) ==
    LET orderDate == ParseTimestamp(orderCreatedAt)
    IN  [deliveryDate |-> setDate(orderDate, tz,
                            getDate(orderDate, tz) + settings.standard_delivery_days),
         currentDate  |-> orderDate,
         busyDayCount |-> 0,
         iterations   |-> 0]

\* lines 105-114: orderDate, deliveryDate = orderDate + standardDays,
\* busyDayCount = 0, currentDate = orderDate + 1
EstimateBegin(orderCreatedAt, tz, settings) ==
    LET orderDate == ParseTimestamp(orderCreatedAt)
    IN  [deliveryDate |-> setDate(orderDate, tz,
                            getDate(orderDate, tz) + settings.standard_delivery_days),
         currentDate  |-> setDate(orderDate, tz, getDate(orderDate, tz) + 1),
         busyDayCount |-> 0,
         iterations   |-> 0]

\* the variant that scans on through one penalty day for each busy day
\* counted so far
EstimateLoopCond_ThroughExtension(l) ==
    l.currentDate <= l.deliveryDate + 24 * l.busyDayCount

\* the loop condition, line 116
EstimateLoopCond(l) == l.currentDate <= l.deliveryDate

\* one pass of the loop body, lines 117-121
EstimateLoopBody(l, tz, busy) ==
    [l EXCEPT !.busyDayCount =
                  IF toISODateStr(l.currentDate) \in busy THEN @ + 1 ELSE @,
              !.currentDate = setDate(@, tz, getDate(@, tz) + 1),
              !.iterations = @ + 1]

\* lines 124-128: the penalty, and the returned date
EstimateEnd(l, tz, settings) ==
    IF l.busyDayCount > 0
    THEN setDate(l.deliveryDate, tz,
                 getDate(l.deliveryDate, tz)
                   + l.busyDayCount * settings.busy_day_penalty_days)
    ELSE l.deliveryDate

RECURSIVE EstimateLoop(_, _, _)
EstimateLoop(l, tz, busy) ==
    IF EstimateLoopCond(l)
    THEN EstimateLoop(EstimateLoopBody(l, tz, busy), tz, busy)
    ELSE l

\* the whole of calculateEstimate, as a function of what it reads
calculateEstimate(orderCreatedAt, tz, busy, settings) ==
    EstimateEnd(EstimateLoop(EstimateBegin(orderCreatedAt, tz, settings), tz, busy),
                tz, settings)

(***************************************************************************)
(* calculateEstimate and the filter of getDeliveryOrdersForDate as the     *)
(* customer calendar has them (CustomerDeliveryCalendar.tsx lines 72-120). *)
(***************************************************************************)
\* customer lines 84-90: the while loop, returning busyDayCount
RECURSIVE CustomerScan(_, _, _, _, _)
CustomerScan(currentDate, deliveryDate, busyDayCount, tz, busy) ==
    IF currentDate <= deliveryDate
    THEN CustomerScan(setDate(currentDate, tz, getDate(currentDate, tz) + 1),
                      deliveryDate,
                      IF toISODateStr(currentDate) \in busy
                      THEN busyDayCount + 1 ELSE busyDayCount,
                      tz, busy)
    ELSE busyDayCount

\* the variant that charges the penalty once, however many busy days
CustomerCalculateEstimate_OnePenalty(orderCreatedAt, tz, busy, settings) ==
    LET orderDate    == ParseTimestamp(orderCreatedAt)
        deliveryDate == setDate(orderDate, tz,
                            getDate(orderDate, tz) + settings.standard_delivery_days)
        busyDayCount == CustomerScan(
                            setDate(orderDate, tz, getDate(orderDate, tz) + 1),
                            deliveryDate, 0, tz, busy)
    IN  IF busyDayCount > 0
        THEN setDate(deliveryDate, tz,
                     getDate(deliveryDate, tz) + settings.busy_day_penalty_days)
        ELSE deliveryDate

\* customer lines 72-97
CustomerCalculateEstimate(orderCreatedAt, tz, busy, settings) ==
    LET orderDate    == ParseTimestamp(orderCreatedAt)
        standardDays == settings.standard_delivery_days
        penaltyDays  == settings.busy_day_penalty_days
        deliveryDate == setDate(orderDate, tz,
                                getDate(orderDate, tz) + standardDays)
        busyDayCount == CustomerScan(
                            setDate(orderDate, tz, getDate(orderDate, tz) + 1),
                            deliveryDate, 0, tz, busy)
    IN  IF busyDayCount > 0
        THEN setDate(deliveryDate, tz,
                     getDate(deliveryDate, tz) + busyDayCount * penaltyDays)
        ELSE deliveryDate

\* customer lines 105-112: targetDate of the filter callback
CustomerTargetDate(o, tz, busy, settings) ==
    IF ~o.delivery_date.isNull
    THEN newLocalDate(o.delivery_date.date[1], o.delivery_date.date[2] - 1,
                      o.delivery_date.date[3], tz)
    ELSE CustomerCalculateEstimate(o.created_at, tz, busy, settings)

(***************************************************************************)
(* getDeliveryOrdersForDate: the confirmed date of an order.               *)
(***************************************************************************)
\* the variant that parses the whole serialised value as an instant
ParseDeliveryDate_AsInstant(delivery_date, tz) ==
    DayOfYMD(delivery_date.date) * 24

\* lines 154-155: split('T')[0].split('-').map(Number), new Date(y, m - 1, d)
ParseDeliveryDate(delivery_date, tz) ==
    LET y == delivery_date.date[1]
        m == delivery_date.date[2]
        d == delivery_date.date[3]
    IN  newLocalDate(y, m - 1, d, tz)

\* line 153: if (order.delivery_date)
HasDeliveryDate(o) == ~o.delivery_date.isNull

(***************************************************************************)
(* The settings modal of the admin calendar.                               *)
(***************************************************************************)
\* the initial component state, admin lines 38-44
DefaultStandardDays == 3
DefaultPenaltyDays == 1
\* the values the onChange handlers fall back to, lines 373 and 388
FallbackStandardDays == 3
FallbackPenaltyDays == 2
\* the min and max attributes of the two inputs, lines 370-371 and 385-386;
\* no handler reads them
MinStandardDays == 1
MaxStandardDays == 30
MinPenaltyDays == 1
MaxPenaltyDays == 10

Digits == {"0", "1", "2", "3", "4", "5", "6", "7", "8", "9"}
DigitValue == "0" :> 0 @@ "1" :> 1 @@ "2" :> 2 @@ "3" :> 3 @@ "4" :> 4 @@
              "5" :> 5 @@ "6" :> 6 @@ "7" :> 7 @@ "8" :> 8 @@ "9" :> 9

\* the longest prefix of digits of a text, as a number; none: -1
RECURSIVE DigitsPrefix(_, _)
DigitsPrefix(text, acc) ==
    IF text = <<>> \/ Head(text) \notin Digits
    THEN acc
    ELSE DigitsPrefix(Tail(text),
                      (IF acc = -1 THEN 0 ELSE acc) * 10 + DigitValue[Head(text)])

\* parseInt(text): an optional sign, then the digits up to the first other
\* character; NaN when no digit is there
parseInt(text) ==
    LET negative == text # <<>> /\ Head(text) = "-"
        unsigned == IF text # <<>> /\ Head(text) \in {"-", "+"}
                    THEN Tail(text) ELSE text
        n        == DigitsPrefix(unsigned, -1)
    IN  IF n = -1 THEN [nan |-> TRUE, value |-> 0]
        ELSE [nan |-> FALSE, value |-> IF negative THEN 0 - n ELSE n]

\* parseInt(e.target.value) || fallback: NaN and 0 are falsy
OrFallback(parsed, fallback) ==
    IF parsed.nan \/ parsed.value = 0 THEN fallback ELSE parsed.value

\* the external store's reply to getDeliverySettings: the record, and
\* {3, 1} when there is none
getDeliverySettings(store) ==
    IF store = <<>>
    THEN [standard_delivery_days |-> 3, busy_day_penalty_days |-> 1]
    ELSE store[1]

\* the external store after updateDeliverySettings(standardDays, penaltyDays)
updateDeliverySettings(store, standardDays, penaltyDays) ==
    <<[standard_delivery_days |-> standardDays,
       busy_day_penalty_days |-> penaltyDays]>>

\* the external store after toggleBusyDay(date, userId): the row of the
\* date is removed when there is one and added, with its creator, when
\* there is none
toggleBusyDay(store, date, userId) ==
    IF \E row \in store : row.busy_date = date
    THEN {row \in store : row.busy_date # date}
    ELSE store \cup {[busy_date |-> date, created_by |-> userId]}

\* the external store's reply to getBusyDays: its rows
getBusyDays(store) == store

\* AuthCallback.tsx line 13: the seconds the success view counts down from
CountdownStart == 5

(***************************************************************************)
(* State.                                                                  *)
(***************************************************************************)
VARIABLES
    order,            \* the order the filter callback is looking at
    tzOffset,         \* the viewer's offset from UTC, in hours
    busyDays,         \* component state: the set of busy_date values
    deliverySettings, \* component state of the admin calendar
    pc,               \* where the filter callback is
    locals,           \* the locals of the running calculateEstimate
    targetDate,       \* targetDate of the filter callback
    shownOn,          \* the civil date the order is a delivery of
    estimateCalls,    \* calls of calculateEstimate made by the callback
    firstResult,      \* what the first of two calls returned
    storeSettings,    \* the external store: <<>> or <<the settings record>>
    editStandardDays, \* admin component state
    editPenaltyDays,  \* admin component state
    showSettings,     \* admin component state
    saving,           \* admin component state
    mountLoad,        \* the loadSettings call of the mount effect
    mountAnswer,      \* the getDeliverySettings answer on its way to it
    saves,            \* the handleSaveSettings calls, by click
    edits,            \* edits of the inputs so far
    settingsLoaded,   \* some loadSettings has called setDeliverySettings
    alerts,           \* the messages alert() has shown, oldest first
    storeBusy,        \* the external store: the rows of busy_days
    toggles,          \* the handleToggleBusyDay calls, by click; 0 is the
                      \* loadBusyDays call of the mount effect
    orders,           \* admin component state
    loading,          \* admin component state
    ordersLoad,       \* the loadOrders call of the mount effect
    authLoading,      \* AuthCallback component state: loading
    authError,        \* AuthCallback component state: error
    countdown,        \* AuthCallback component state
    rendered,         \* the loading, error and countdown of the last render
                      \* of AuthCallback
    effectDeps,       \* the loading, error and countdown the countdown
                      \* effect has last run with
    timer,            \* whether the interval of the countdown effect is set
    location,         \* where the router is
    navigatedBy,      \* what called navigate: "effect", "button" or "none"
    callbackPc,       \* where handleCallback is
    callbackLocals,   \* the supabase.auth calls handleCallback has made and
                      \* what they answered
    url,              \* what the callback page was opened with
    selectedOrder,    \* customer component state: <<>> for null, <<order>>
    showRequestForm,  \* customer component state
    requestReason,    \* customer component state
    requestedDate,    \* customer component state: <<>> for '', <<y, m, d>>
                      \* for a date, <<y, m, d, h>> for an ISO timestamp
    submitting,       \* customer component state
    submit,           \* the running handleSubmitRequest call
    requests          \* the external store: rows of delivery_change_requests

\* what the filter callback and calculateEstimate touch, deliverySettings
\* apart
estVars == <<order, tzOffset, busyDays, pc, locals, targetDate, shownOn,
             estimateCalls, firstResult>>

\* what the settings modal and its handlers touch, deliverySettings apart
adminVars == <<storeSettings, editStandardDays, editPenaltyDays, showSettings,
               saving, mountLoad, mountAnswer, saves, edits, settingsLoaded>>

\* what the busy-day toggle and the mount effect's other loads touch,
\* busyDays apart
toggleVars == <<storeBusy, toggles, orders, loading, ordersLoad>>

\* the AuthCallback page
authVars == <<authLoading, authError, countdown, rendered, effectDeps, timer,
              location, navigatedBy, callbackPc, callbackLocals, url>>

\* what a step of the busy-day button or of a load of the mount effect
\* leaves alone
toggleFrame == <<order, tzOffset, pc, locals, targetDate, shownOn,
                 estimateCalls, firstResult, adminVars, deliverySettings,
                 authVars, selectedOrder, showRequestForm, requestReason,
                 requestedDate, submitting, submit, requests>>

\* the change-request form of the customer calendar and the table it
\* writes to
requestVars == <<selectedOrder, showRequestForm, requestReason, requestedDate,
                 submitting, submit, requests>>

vars == <<estVars, adminVars, deliverySettings, alerts, toggleVars, authVars,
          requestVars>>

(***************************************************************************)
(* The inputs drawn for the estimator.                                     *)
(***************************************************************************)
CreatedDates == {<<2024, 1, 1>>, <<2024, 2, 27>>}
CreatedHours == {0, 12, 22}
TzOffsets == {-5, 0, 3}

NullDate == [isNull |-> TRUE, date |-> <<0, 0, 0>>, hasTime |-> FALSE]
DeliveryDates ==
    {NullDate,
     [isNull |-> FALSE, date |-> <<2024, 1, 5>>, hasTime |-> FALSE],
     [isNull |-> FALSE, date |-> <<2024, 3, 1>>, hasTime |-> TRUE]}

\* busy_date candidates around an order: its UTC date up to the day after
\* the longest standard window
BusyCandidates(created) ==
    {YMD(DayOfYMD(created.date) + i) : i \in 0..(MaxStd + 1)}

SettingsValues ==
    [standard_delivery_days : -1..MaxStd, busy_day_penalty_days : -1..MaxPen]

NoLocals == [deliveryDate |-> 0, currentDate |-> 0, busyDayCount |-> 0,
             iterations |-> 0]

\* a handleSaveSettings call that has not been made; std and pen are the
\* edit values its closure holds, settings the getDeliverySettings answer
\* on its way to its loadSettings
IdleSave == [pc |-> "idle", std |-> 0, pen |-> 0, settings |-> <<>>]

\* the admin calendar before anything of the settings modal has run
AdminIdle ==
    /\ storeSettings = <<>>
    /\ editStandardDays = DefaultStandardDays
    /\ editPenaltyDays = DefaultPenaltyDays
    /\ showSettings = FALSE
    /\ saving = FALSE
    /\ mountLoad = "idle"
    /\ mountAnswer = <<>>
    /\ saves = [h \in 1..MaxSaves |-> IdleSave]
    /\ edits = 0
    /\ settingsLoaded = FALSE

\* a busy-day toggle call that has not been made; date is the selectedDate
\* its closure holds, user what getUser answered, rows what getBusyDays
\* answered
IdleToggle == [pc |-> "idle", date |-> <<0, 0, 0>>, user |-> "none", rows |-> {}]

\* the admin calendar before anything of the busy-day toggle has run
TogglesIdle ==
    /\ storeBusy = {}
    /\ toggles = [h \in 0..MaxToggles |-> IdleToggle]
    /\ orders = <<>>
    /\ loading = TRUE
    /\ ordersLoad = "idle"

\* handleCallback before its first call: exchange is "ok" or "error" once
\* exchangeCodeForSession has answered, session "yes" or "no" once
\* getSession has
NoCalls == [calls |-> {}, exchange |-> "none", session |-> "none"]

\* AuthCallback.tsx lines 11-13 and 61-70: what the first render of the
\* page has, and what the countdown effect runs with after it
MountedView ==
    [loading |-> TRUE, error |-> <<>>, countdown |-> CountdownStart]

\* the AuthCallback page is not mounted
AuthIdle ==
    /\ authLoading = TRUE
    /\ authError = <<>>
    /\ countdown = CountdownStart
    /\ rendered = MountedView
    /\ effectDeps = MountedView
    /\ timer = FALSE
    /\ location = "elsewhere"
    /\ navigatedBy = "none"
    /\ callbackPc = "idle"
    /\ callbackLocals = NoCalls
    /\ url = [error_description |-> "", error |-> "", code |-> "", hash |-> ""]

\* no handleSubmitRequest call is running
NoSubmit == [pc |-> "idle", row |-> <<>>]

\* the customer calendar before anything of the change-request form has
\* run, customer lines 26-31
RequestIdle ==
    /\ selectedOrder = <<>>
    /\ showRequestForm = FALSE
    /\ requestReason = ""
    /\ requestedDate = <<>>
    /\ submitting = FALSE
    /\ submit = NoSubmit
    /\ requests = <<>>

\* no filter callback is running
EstimatorIdle ==
    /\ order = [created_at |-> [date |-> <<2024, 1, 1>>, hour |-> 0],
                delivery_date |-> NullDate]
    /\ tzOffset = 0
    /\ busyDays = {}
    /\ pc = "idle"
    /\ locals = NoLocals
    /\ targetDate = 0
    /\ shownOn = <<0, 0, 0>>
    /\ estimateCalls = 0
    /\ firstResult = 0

(***************************************************************************)
(* The estimator and its caller: one filter callback of                    *)
(* getDeliveryOrdersForDate on an order, a busy-day set and settings drawn *)
(* from the sets above.                                                    *)
(***************************************************************************)
Init ==
    /\ order \in [created_at : [date : CreatedDates, hour : CreatedHours],
                  delivery_date : DeliveryDates]
    /\ tzOffset \in TzOffsets
    /\ busyDays \in SUBSET BusyCandidates(order.created_at)
    /\ deliverySettings \in SettingsValues
    /\ pc = "filter"
    /\ locals = NoLocals
    /\ targetDate = 0
    /\ shownOn = <<0, 0, 0>>
    /\ estimateCalls = 0
    /\ firstResult = 0
    /\ AdminIdle
    /\ alerts = <<>>
    /\ TogglesIdle
    /\ AuthIdle
    /\ RequestIdle

\* lines 153-155: the order has a confirmed date
UseConfirmedDate ==
    /\ pc = "filter"
    /\ HasDeliveryDate(order)
    /\ targetDate' = ParseDeliveryDate(order.delivery_date, tzOffset)
    /\ pc' = "compare"
    /\ UNCHANGED <<firstResult, order, tzOffset, busyDays, deliverySettings, locals,
                   shownOn, estimateCalls>>
    /\ UNCHANGED <<adminVars, alerts, toggleVars, authVars,
                   requestVars>>

\* lines 156-157 and 105-114: no confirmed date, calculateEstimate starts
EstimateStart ==
    /\ pc = "filter"
    /\ ~HasDeliveryDate(order)
    /\ locals' = EstimateBegin(order.created_at, tzOffset, deliverySettings)
    /\ estimateCalls' = estimateCalls + 1
    /\ pc' = "loop"
    /\ UNCHANGED <<firstResult, order, tzOffset, busyDays, deliverySettings, targetDate,
                   shownOn>>
    /\ UNCHANGED <<adminVars, alerts, toggleVars, authVars,
                   requestVars>>

\* the variant of the scan that takes a busy day it has counted out of the
\* component's set
EstimateScan_ConsumesBusyDay ==
    /\ pc = "loop"
    /\ EstimateLoopCond(locals)
    /\ locals' = EstimateLoopBody(locals, tzOffset, busyDays)
    /\ busyDays' = busyDays \ {toISODateStr(locals.currentDate)}
    /\ UNCHANGED <<firstResult, order, tzOffset, deliverySettings, pc,
                   targetDate, shownOn, estimateCalls>>
    /\ UNCHANGED <<adminVars, alerts, toggleVars, authVars,
                   requestVars>>

\* lines 116-122: one pass of the scan
EstimateScan ==
    /\ pc = "loop"
    /\ EstimateLoopCond(locals)
    /\ locals' = EstimateLoopBody(locals, tzOffset, busyDays)
    /\ UNCHANGED <<firstResult, order, tzOffset, busyDays, deliverySettings, pc,
                   targetDate, shownOn, estimateCalls>>
    /\ UNCHANGED <<adminVars, alerts, toggleVars, authVars,
                   requestVars>>

\* lines 124-128 and 157: the scan is over, the penalty is added and the
\* date returned
EstimateReturn ==
    /\ pc = "loop"
    /\ ~EstimateLoopCond(locals)
    /\ targetDate' = EstimateEnd(locals, tzOffset, deliverySettings)
    /\ locals' = [locals EXCEPT !.deliveryDate = targetDate']
    /\ pc' = "compare"
    /\ UNCHANGED <<firstResult, order, tzOffset, busyDays, deliverySettings, shownOn,
                   estimateCalls>>
    /\ UNCHANGED <<adminVars, alerts, toggleVars, authVars,
                   requestVars>>

\* lines 160-164: the civil date whose tile lists the order
Compare ==
    /\ pc = "compare"
    /\ shownOn' = getCivil(targetDate, tzOffset)
    /\ pc' = "done"
    /\ UNCHANGED <<firstResult, order, tzOffset, busyDays, deliverySettings, locals,
                   targetDate, estimateCalls>>
    /\ UNCHANGED <<adminVars, alerts, toggleVars, authVars,
                   requestVars>>

\* line 310, and line 157 for the next tile: the render calls
\* calculateEstimate on the same order once more
CallAgain ==
    /\ pc = "done"
    /\ estimateCalls = 1
    /\ firstResult' = targetDate
    /\ locals' = EstimateBegin(order.created_at, tzOffset, deliverySettings)
    /\ estimateCalls' = 2
    /\ pc' = "loop"
    /\ UNCHANGED <<order, tzOffset, busyDays, deliverySettings, targetDate,
                   shownOn>>
    /\ UNCHANGED <<adminVars, alerts, toggleVars, authVars,
                   requestVars>>

Next ==
    \/ UseConfirmedDate
    \/ EstimateStart
    \/ EstimateScan
    \/ EstimateReturn
    \/ Compare
    \/ CallAgain

Spec == Init /\ [][Next]_vars

(***************************************************************************)
(* The admin calendar's settings: the mount effect's loadSettings, the     *)
(* settings modal and handleSaveSettings, against the external store.      *)
(* Each await of a handler ends a step.                                    *)
(***************************************************************************)
\* what the number inputs hand to onChange as e.target.value: the empty
\* text of a cleared or unparsable field, or the number typed.  The min and
\* max attributes do not keep a typed number out of the value.  The texts
\* drawn for the standard days input, and those for the penalty input:
TypedStandardDays == {<<>>, <<"-", "7">>, <<"3", "1">>, <<"7", ".", "5">>}
TypedPenaltyDays == {<<"0">>, <<"1", "2">>}

\* the settings records the store may hold when the calendar mounts
StoredAtMount ==
    {<<>>, <<[standard_delivery_days |-> 5, busy_day_penalty_days |-> 2]>>}

\* lines 31-50: the calendar has mounted with its initial state, and the
\* mount effect has called loadOrders, loadBusyDays and loadSettings: the
\* three requests are on their way
Mounted ==
    /\ deliverySettings = [standard_delivery_days |-> DefaultStandardDays,
                           busy_day_penalty_days |-> DefaultPenaltyDays]
    /\ editStandardDays = DefaultStandardDays
    /\ editPenaltyDays = DefaultPenaltyDays
    /\ showSettings = FALSE
    /\ saving = FALSE
    /\ mountLoad = "fetching"
    /\ mountAnswer = <<>>
    /\ saves = [h \in 1..MaxSaves |-> IdleSave]
    /\ edits = 0
    /\ settingsLoaded = FALSE
    /\ alerts = <<>>
    /\ toggles = [h \in 0..MaxToggles |->
                    IF h = 0 THEN [IdleToggle EXCEPT !.pc = "load"]
                    ELSE IdleToggle]
    /\ orders = <<>>
    /\ loading = TRUE
    /\ ordersLoad = "fetching"
    /\ EstimatorIdle
    /\ AuthIdle
    /\ RequestIdle

\* the mounted calendar over a store with or without a settings record
InitAdmin ==
    /\ storeSettings \in StoredAtMount
    /\ storeBusy = {}
    /\ Mounted

\* a handleSaveSettings call that has returned; std and pen, the edit values
\* its closure holds, are dead once the update request has been answered
Finished == [IdleSave EXCEPT !.pc = "finished"]

\* a handleSaveSettings call that has returned through its catch block
Failed == [IdleSave EXCEPT !.pc = "failed"]

\* lines 95 and 98: what alert() is given
UpdatedMessage == "deliverySettingsUpdated"
FailedMessage == "failedToUpdateSettings"

\* loadSettings, lines 73-75, with the answer of getDeliverySettings
loadSettingsApply(settings) ==
    /\ deliverySettings' = settings
    /\ editStandardDays' = settings.standard_delivery_days
    /\ editPenaltyDays' = settings.busy_day_penalty_days
    /\ settingsLoaded' = TRUE

\* line 72: the store answers the getDeliverySettings request of the mount
\* effect's loadSettings with the record it holds now
MountLoadAnswered ==
    /\ mountLoad = "fetching"
    /\ mountAnswer' = <<getDeliverySettings(storeSettings)>>
    /\ mountLoad' = "answered"
    /\ UNCHANGED <<storeSettings, deliverySettings, editStandardDays,
                   editPenaltyDays, showSettings, saving, saves, edits,
                   settingsLoaded>>
    /\ UNCHANGED <<estVars, alerts, toggleVars, authVars,
                   requestVars>>

\* lines 72-75: the answer has arrived at the mount effect's loadSettings
MountLoadReturns ==
    /\ mountLoad = "answered"
    /\ loadSettingsApply(mountAnswer[1])
    /\ mountLoad' = "done"
    /\ mountAnswer' = <<>>
    /\ UNCHANGED <<storeSettings, showSettings, saving, saves, edits>>
    /\ UNCHANGED <<estVars, alerts, toggleVars, authVars,
                   requestVars>>

\* the store is unavailable: getDeliverySettings rejects, nothing is set
MountLoadFails ==
    /\ mountLoad \in {"fetching", "answered"}
    /\ mountLoad' = "failed"
    /\ mountAnswer' = <<>>
    /\ UNCHANGED <<storeSettings, deliverySettings, editStandardDays,
                   editPenaltyDays, showSettings, saving, saves, edits,
                   settingsLoaded>>
    /\ UNCHANGED <<estVars, alerts, toggleVars, authVars,
                   requestVars>>

\* lines 201-203 and 223-224: the Delivery Settings button, which the
\* loading view does not have
OpenSettings ==
    /\ ~loading
    /\ ~showSettings
    /\ showSettings' = TRUE
    /\ UNCHANGED <<storeSettings, deliverySettings, editStandardDays,
                   editPenaltyDays, saving, mountLoad, mountAnswer, saves,
                   edits, settingsLoaded>>
    /\ UNCHANGED <<estVars, alerts, toggleVars, authVars,
                   requestVars>>

\* lines 368-375: onChange of the standard delivery days input
EditStandardDays ==
    /\ showSettings
    /\ edits < MaxEdits
    /\ \E text \in TypedStandardDays :
           editStandardDays' = OrFallback(parseInt(text), FallbackStandardDays)
    /\ edits' = edits + 1
    /\ UNCHANGED <<storeSettings, deliverySettings, editPenaltyDays,
                   showSettings, saving, mountLoad, mountAnswer, saves,
                   settingsLoaded>>
    /\ UNCHANGED <<estVars, alerts, toggleVars, authVars,
                   requestVars>>

\* lines 383-390: onChange of the busy day penalty input
EditPenaltyDays ==
    /\ showSettings
    /\ edits < MaxEdits
    /\ \E text \in TypedPenaltyDays :
           editPenaltyDays' = OrFallback(parseInt(text), FallbackPenaltyDays)
    /\ edits' = edits + 1
    /\ UNCHANGED <<storeSettings, deliverySettings, editStandardDays,
                   showSettings, saving, mountLoad, mountAnswer, saves,
                   settingsLoaded>>
    /\ UNCHANGED <<estVars, alerts, toggleVars, authVars,
                   requestVars>>

\* lines 402-408: the Cancel button, disabled while saving
CancelSettings ==
    /\ showSettings
    /\ ~saving
    /\ showSettings' = FALSE
    /\ editStandardDays' = deliverySettings.standard_delivery_days
    /\ editPenaltyDays' = deliverySettings.busy_day_penalty_days
    /\ UNCHANGED <<storeSettings, deliverySettings, saving, mountLoad,
                   mountAnswer, saves, edits, settingsLoaded>>
    /\ UNCHANGED <<estVars, alerts, toggleVars, authVars,
                   requestVars>>

\* lines 395-397 and 86-87: a click on Save, disabled while saving, starts
\* handleSaveSettings with the edit values of the render it was made in, up
\* to its await of getUser
SaveClick(h) ==
    /\ showSettings
    /\ ~saving
    /\ saves[h].pc = "idle"
    /\ \A g \in 1..(h - 1) : saves[g].pc # "idle"
    /\ saves' = [saves EXCEPT ![h] = [IdleSave EXCEPT
                                        !.pc = "getUser",
                                        !.std = editStandardDays,
                                        !.pen = editPenaltyDays]]
    /\ UNCHANGED <<storeSettings, deliverySettings, editStandardDays,
                   editPenaltyDays, showSettings, saving, mountLoad,
                   mountAnswer, edits, settingsLoaded>>
    /\ UNCHANGED <<estVars, alerts, toggleVars, authVars,
                   requestVars>>

\* line 88: getUser answered without a user, the handler returns
SaveNoUser(h) ==
    /\ saves[h].pc = "getUser"
    /\ saves' = [saves EXCEPT ![h] = Finished]
    /\ UNCHANGED <<storeSettings, deliverySettings, editStandardDays,
                   editPenaltyDays, showSettings, saving, mountLoad,
                   mountAnswer, edits, settingsLoaded>>
    /\ UNCHANGED <<estVars, alerts, toggleVars, authVars,
                   requestVars>>

\* lines 90-92: getUser answered with a user: setSaving(true), and the
\* updateDeliverySettings request goes out
SaveSendUpdate(h) ==
    /\ saves[h].pc = "getUser"
    /\ saving' = TRUE
    /\ saves' = [saves EXCEPT ![h].pc = "update"]
    /\ UNCHANGED <<storeSettings, deliverySettings, editStandardDays,
                   editPenaltyDays, showSettings, mountLoad, mountAnswer,
                   edits, settingsLoaded>>
    /\ UNCHANGED <<estVars, alerts, toggleVars, authVars,
                   requestVars>>

\* lines 92-93: the store has taken the update, loadSettings is called
SaveUpdateReturns(h) ==
    /\ saves[h].pc = "update"
    /\ storeSettings' = updateDeliverySettings(storeSettings, saves[h].std,
                                                saves[h].pen)
    /\ saves' = [saves EXCEPT ![h] = [IdleSave EXCEPT !.pc = "load"]]
    /\ UNCHANGED <<deliverySettings, editStandardDays, editPenaltyDays,
                   showSettings, saving, mountLoad, mountAnswer, edits,
                   settingsLoaded>>
    /\ UNCHANGED <<estVars, alerts, toggleVars, authVars,
                   requestVars>>

\* lines 93 and 72: the store answers the getDeliverySettings request of
\* the handler's loadSettings with the record it holds now
SaveLoadAnswered(h) ==
    /\ saves[h].pc = "load"
    /\ saves' = [saves EXCEPT ![h].pc = "answered",
                              ![h].settings = <<getDeliverySettings(storeSettings)>>]
    /\ UNCHANGED <<storeSettings, deliverySettings, editStandardDays,
                   editPenaltyDays, showSettings, saving, mountLoad,
                   mountAnswer, edits, settingsLoaded>>
    /\ UNCHANGED <<estVars, alerts, toggleVars, authVars,
                   requestVars>>

\* lines 93-95 and 99-100: the answer has arrived and loadSettings has set
\* the component's settings; the modal closes, success is announced,
\* saving is reset
SaveLoadReturns(h) ==
    /\ saves[h].pc = "answered"
    /\ loadSettingsApply(saves[h].settings[1])
    /\ showSettings' = FALSE
    /\ saving' = FALSE
    /\ alerts' = Append(alerts, UpdatedMessage)
    /\ saves' = [saves EXCEPT ![h] = Finished]
    /\ UNCHANGED <<storeSettings, mountLoad, mountAnswer, edits>>
    /\ UNCHANGED <<estVars, toggleVars, authVars,
                   requestVars>>

\* lines 96-100: updateDeliverySettings or loadSettings has thrown; failure
\* is announced, saving is reset
SaveFails(h) ==
    /\ saves[h].pc \in {"update", "load", "answered"}
    /\ saving' = FALSE
    /\ alerts' = Append(alerts, FailedMessage)
    /\ saves' = [saves EXCEPT ![h] = Failed]
    /\ UNCHANGED <<storeSettings, deliverySettings, editStandardDays,
                   editPenaltyDays, showSettings, mountLoad, mountAnswer,
                   edits, settingsLoaded>>
    /\ UNCHANGED <<estVars, toggleVars, authVars,
                   requestVars>>

(***************************************************************************)
(* The busy-day button of the admin calendar and the loads of the mount    *)
(* effect: handleToggleBusyDay calls run from click to return, each await  *)
(* ending a step.  A getBusyDays request is answered by the store in one   *)
(* step and its answer reaches the component in a later one.               *)
(***************************************************************************)
\* the date the admin has selected when clicking the busy-day button
ToggleDates == {<<2024, 1, 2>>}

\* the rows the store may hold when the calendar mounts
StoredBusyAtMount ==
    {{}, {[busy_date |-> <<2024, 1, 2>>, created_by |-> "admin-0"]}}

\* what the orders table holds
StoredOrders == <<"order-1", "order-2">>

\* the id of the signed-in user
SessionUser == "admin-1"

\* the mounted calendar over a store with or without a busy day
InitToggle ==
    /\ storeSettings = <<>>
    /\ storeBusy \in StoredBusyAtMount
    /\ Mounted

\* a handleToggleBusyDay call that has returned
FinishedToggle(user) == [IdleToggle EXCEPT !.pc = "finished", !.user = user]

\* a call whose promise was rejected
FailedToggle(user) == [IdleToggle EXCEPT !.pc = "failed", !.user = user]

\* lines 52-62: the orders query has answered with data
LoadOrdersReturns ==
    /\ ordersLoad = "fetching"
    /\ orders' = StoredOrders
    /\ loading' = FALSE
    /\ ordersLoad' = "done"
    /\ UNCHANGED <<storeBusy, toggles, busyDays, alerts>>
    /\ UNCHANGED toggleFrame

\* lines 54-62: the orders query has answered with an error and no data;
\* only data is read from the answer
LoadOrdersFails ==
    /\ ordersLoad = "fetching"
    /\ loading' = FALSE
    /\ ordersLoad' = "failed"
    /\ UNCHANGED <<storeBusy, toggles, busyDays, orders, alerts>>
    /\ UNCHANGED toggleFrame

\* lines 201-203, 276-284 and 78-79: a click on the busy-day button, which
\* the loading view does not have, starts handleToggleBusyDay on the
\* selected date, up to its await of getUser
ToggleClick(h) ==
    /\ ~loading
    /\ toggles[h].pc = "idle"
    /\ \A g \in 1..(h - 1) : toggles[g].pc # "idle"
    /\ \E selectedDate \in ToggleDates :
           toggles' = [toggles EXCEPT ![h] = [IdleToggle EXCEPT
                                                !.pc = "getUser",
                                                !.date = selectedDate]]
    /\ UNCHANGED <<storeBusy, busyDays, orders, loading, ordersLoad, alerts>>
    /\ UNCHANGED toggleFrame

\* the variant that goes on to toggle without a user
ToggleNoUser_TogglesAnyway(h) ==
    /\ toggles[h].pc = "getUser"
    /\ toggles' = [toggles EXCEPT ![h].pc = "toggle"]
    /\ UNCHANGED <<storeBusy, busyDays, orders, loading, ordersLoad, alerts>>
    /\ UNCHANGED toggleFrame

\* line 80: getUser answered without a user, the handler returns
ToggleNoUser(h) ==
    /\ toggles[h].pc = "getUser"
    /\ toggles' = [toggles EXCEPT ![h] = FinishedToggle("none")]
    /\ UNCHANGED <<storeBusy, busyDays, orders, loading, ordersLoad, alerts>>
    /\ UNCHANGED toggleFrame

\* lines 80-82: getUser answered with a user, the toggleBusyDay request
\* goes out with the date and the user's id
ToggleSend(h) ==
    /\ toggles[h].pc = "getUser"
    /\ toggles' = [toggles EXCEPT ![h].pc = "toggle", ![h].user = SessionUser]
    /\ UNCHANGED <<storeBusy, busyDays, orders, loading, ordersLoad, alerts>>
    /\ UNCHANGED toggleFrame

\* the variant that returns once the store has toggled
ToggleReturns_NoReload(h) ==
    /\ toggles[h].pc = "toggle"
    /\ storeBusy' = toggleBusyDay(storeBusy, toggles[h].date, toggles[h].user)
    /\ toggles' = [toggles EXCEPT ![h] = FinishedToggle(toggles[h].user)]
    /\ UNCHANGED <<busyDays, orders, loading, ordersLoad, alerts>>
    /\ UNCHANGED toggleFrame

\* lines 82-83: the store has toggled the date, loadBusyDays is called
ToggleReturns(h) ==
    /\ toggles[h].pc = "toggle"
    /\ storeBusy' = toggleBusyDay(storeBusy, toggles[h].date, toggles[h].user)
    /\ toggles' = [toggles EXCEPT ![h].pc = "load", ![h].date = <<0, 0, 0>>]
    /\ UNCHANGED <<busyDays, orders, loading, ordersLoad, alerts>>
    /\ UNCHANGED toggleFrame

\* line 82: toggleBusyDay has thrown; nothing catches it, the handler's
\* promise is rejected
ToggleFails(h) ==
    /\ toggles[h].pc = "toggle"
    /\ toggles' = [toggles EXCEPT ![h] = FailedToggle(toggles[h].user)]
    /\ UNCHANGED <<storeBusy, busyDays, orders, loading, ordersLoad, alerts>>
    /\ UNCHANGED toggleFrame

\* line 66: the store answers the getBusyDays request of a loadBusyDays
\* call with the rows it holds now
LoadBusyDaysAnswered(h) ==
    /\ toggles[h].pc = "load"
    /\ toggles' = [toggles EXCEPT ![h].pc = "answered",
                                  ![h].rows = getBusyDays(storeBusy)]
    /\ UNCHANGED <<storeBusy, busyDays, orders, loading, ordersLoad, alerts>>
    /\ UNCHANGED toggleFrame

\* lines 66-68: the answer has arrived: setBusyDays(new Set(days.map(d =>
\* d.busy_date))), and the caller returns
LoadBusyDaysReturns(h) ==
    /\ toggles[h].pc = "answered"
    /\ busyDays' = {d.busy_date : d \in toggles[h].rows}
    /\ toggles' = [toggles EXCEPT ![h] = FinishedToggle(toggles[h].user)]
    /\ UNCHANGED <<storeBusy, orders, loading, ordersLoad, alerts>>
    /\ UNCHANGED toggleFrame

\* line 66: getBusyDays has thrown; nothing catches it
LoadBusyDaysFails(h) ==
    /\ toggles[h].pc \in {"load", "answered"}
    /\ toggles' = [toggles EXCEPT ![h] = FailedToggle(toggles[h].user)]
    /\ UNCHANGED <<storeBusy, busyDays, orders, loading, ordersLoad, alerts>>
    /\ UNCHANGED toggleFrame

\* a step of the settings modal or of a load of the mount effect
NextAdmin ==
    \/ LoadOrdersReturns
    \/ LoadOrdersFails
    \/ LoadBusyDaysAnswered(0)
    \/ LoadBusyDaysReturns(0)
    \/ LoadBusyDaysFails(0)
    \/ MountLoadAnswered
    \/ MountLoadReturns
    \/ MountLoadFails
    \/ OpenSettings
    \/ EditStandardDays
    \/ EditPenaltyDays
    \/ CancelSettings
    \/ \E h \in 1..MaxSaves : SaveClick(h)
    \/ \E h \in 1..MaxSaves : SaveNoUser(h)
    \/ \E h \in 1..MaxSaves : SaveSendUpdate(h)
    \/ \E h \in 1..MaxSaves : SaveUpdateReturns(h)
    \/ \E h \in 1..MaxSaves : SaveLoadAnswered(h)
    \/ \E h \in 1..MaxSaves : SaveLoadReturns(h)
    \/ \E h \in 1..MaxSaves : SaveFails(h)

SpecAdmin == InitAdmin /\ [][NextAdmin]_vars

\* a step of the busy-day button or of a load of the mount effect
NextToggle ==
    \/ LoadOrdersReturns
    \/ LoadOrdersFails
    \/ MountLoadAnswered
    \/ MountLoadReturns
    \/ MountLoadFails
    \/ \E h \in 1..MaxToggles : ToggleClick(h)
    \/ \E h \in 1..MaxToggles : ToggleNoUser(h)
    \/ \E h \in 1..MaxToggles : ToggleSend(h)
    \/ \E h \in 1..MaxToggles : ToggleReturns(h)
    \/ \E h \in 1..MaxToggles : ToggleFails(h)
    \/ \E h \in 0..MaxToggles : LoadBusyDaysAnswered(h)
    \/ \E h \in 0..MaxToggles : LoadBusyDaysReturns(h)
    \/ \E h \in 0..MaxToggles : LoadBusyDaysFails(h)

SpecToggle == InitToggle /\ [][NextToggle]_vars

(***************************************************************************)
(* The handlers of the admin calendar together: the loads of the mount     *)
(* effect, the settings modal and the busy-day button in one run, every    *)
(* step of theirs as it is in NextAdmin and NextToggle.  The run is        *)
(* bounded by the number of edits and handler calls the admin starts.      *)
(***************************************************************************)
InitHandlers == InitAdmin \/ InitToggle

\* the edits made and the handleSaveSettings and handleToggleBusyDay calls
\* started so far
ActionsStarted ==
    edits + Cardinality({h \in 1..MaxSaves : saves[h].pc # "idle"})
    + Cardinality({h \in 1..MaxToggles : toggles[h].pc # "idle"})

\* a step of one of the three loads of the mount effect
NextMount ==
    \/ LoadOrdersReturns
    \/ LoadOrdersFails
    \/ LoadBusyDaysAnswered(0)
    \/ LoadBusyDaysReturns(0)
    \/ LoadBusyDaysFails(0)
    \/ MountLoadAnswered
    \/ MountLoadReturns
    \/ MountLoadFails

NextHandlers ==
    \/ NextMount
    \/ OpenSettings
    \/ CancelSettings
    \/ \E h \in 1..MaxSaves : SaveNoUser(h)
    \/ \E h \in 1..MaxSaves : SaveSendUpdate(h)
    \/ \E h \in 1..MaxSaves : SaveUpdateReturns(h)
    \/ \E h \in 1..MaxSaves : SaveLoadAnswered(h)
    \/ \E h \in 1..MaxSaves : SaveLoadReturns(h)
    \/ \E h \in 1..MaxSaves : SaveFails(h)
    \/ /\ ActionsStarted < MaxActions
       /\ \/ EditStandardDays
          \/ EditPenaltyDays
          \/ \E h \in 1..MaxSaves : SaveClick(h)
          \/ \E h \in 1..MaxToggles : ToggleClick(h)
    \/ \E h \in 1..MaxToggles : ToggleNoUser(h)
    \/ \E h \in 1..MaxToggles : ToggleSend(h)
    \/ \E h \in 1..MaxToggles : ToggleReturns(h)
    \/ \E h \in 1..MaxToggles : ToggleFails(h)
    \/ \E h \in 1..MaxToggles : LoadBusyDaysAnswered(h)
    \/ \E h \in 1..MaxToggles : LoadBusyDaysReturns(h)
    \/ \E h \in 1..MaxToggles : LoadBusyDaysFails(h)

SpecHandlers == InitHandlers /\ [][NextHandlers]_vars

(***************************************************************************)
(* The AuthCallback page (pages/AuthCallback.tsx).  error is <<>> for null *)
(* and <<message>> when set.  A change of the state, the render that      *)
(* follows it and the run of the countdown effect after the render (its    *)
(* cleanup, then its body with the rendered values) are steps of their     *)
(* own, and so is a firing of the interval: the interval stays set until   *)
(* the cleanup clears it.                                                  *)
(***************************************************************************)
\* what the page may be opened with: the error_description, error and code
\* query parameters ("" when absent) and the hash
CallbackUrls ==
    [error_description : {"", "Email link is invalid or has expired"},
     error : {"", "access_denied", "server_error"},
     code : {"", "pkce-code"},
     hash : {"", "#access_token=token"}]

\* the messages of a failed exchangeCodeForSession and of a thrown error,
\* each with a text
ExchangeErrors == {"invalid flow state", "code verifier expired"}
ThrownErrors == {"Failed to fetch"}

\* line 45
NoCodeMessage ==
    "No authentication code found. Please try the link in your email again."

\* a or b of two strings: the empty string is falsy
StrOr(a, b) == IF a # "" THEN a ELSE b

\* !error: null and the empty string are falsy
NoError(error) == IF error = <<>> THEN TRUE ELSE error[1] = ""

\* line 62: the condition under which the effect sets an interval
TimerRunning(isLoading, error, count) ==
    ~isLoading /\ NoError(error) /\ count > 0

\* line 67: the condition under which the effect navigates
ShouldNavigate(isLoading, error, count) ==
    ~isLoading /\ NoError(error) /\ count = 0

\* the state of the component: what the next render will have
ComponentState ==
    [loading |-> authLoading, error |-> authError, countdown |-> countdown]

\* lines 11-15 and 61-70: the page is mounted, handleCallback is called
\* and the countdown effect has run with loading true
InitAuth ==
    /\ url \in CallbackUrls
    /\ authLoading = TRUE
    /\ authError = <<>>
    /\ countdown = CountdownStart
    /\ rendered = MountedView
    /\ effectDeps = MountedView
    /\ timer = FALSE
    /\ location = "/auth/callback"
    /\ navigatedBy = "none"
    /\ callbackPc = "start"
    /\ callbackLocals = NoCalls
    /\ deliverySettings = [standard_delivery_days |-> DefaultStandardDays,
                           busy_day_penalty_days |-> DefaultPenaltyDays]
    /\ alerts = <<>>
    /\ EstimatorIdle
    /\ AdminIdle
    /\ TogglesIdle
    /\ RequestIdle

\* what the page leaves alone
authFrame == <<estVars, adminVars, deliverySettings, alerts, toggleVars, url,
               requestVars>>

\* lines 21-26: an error in the URL
CallbackUrlError ==
    /\ callbackPc = "start"
    /\ StrOr(url.error_description, url.error) # ""
    /\ authError' = <<StrOr(url.error_description, url.error)>>
    /\ authLoading' = FALSE
    /\ callbackPc' = "returned"
    /\ UNCHANGED <<callbackLocals, countdown, location, navigatedBy,
                   rendered, effectDeps,
                   timer, authFrame>>

\* the variant that exchanges the code whatever error the URL holds
CallbackExchange_IgnoresUrlError ==
    /\ callbackPc = "start"
    /\ url.code # ""
    /\ callbackPc' = "exchange"
    /\ callbackLocals' = [callbackLocals EXCEPT
                             !.calls = @ \cup {"exchangeCodeForSession"}]
    /\ UNCHANGED <<authLoading, authError, countdown, location, navigatedBy,
                   rendered, effectDeps,
                   timer, authFrame>>

\* lines 29-31: a code in the URL, exchangeCodeForSession is awaited
CallbackExchange ==
    /\ callbackPc = "start"
    /\ StrOr(url.error_description, url.error) = ""
    /\ url.code # ""
    /\ callbackPc' = "exchange"
    /\ callbackLocals' = [callbackLocals EXCEPT
                             !.calls = @ \cup {"exchangeCodeForSession"}]
    /\ UNCHANGED <<authLoading, authError, countdown, location, navigatedBy,
                   rendered, effectDeps,
                   timer, authFrame>>

\* lines 32-36: the exchange answered with an error
ExchangeFails ==
    /\ callbackPc = "exchange"
    /\ \E message \in ExchangeErrors : authError' = <<message>>
    /\ authLoading' = FALSE
    /\ callbackPc' = "returned"
    /\ callbackLocals' = [callbackLocals EXCEPT !.exchange = "error"]
    /\ UNCHANGED <<countdown, location, navigatedBy, rendered, effectDeps,
                   timer, authFrame>>

\* lines 31-32 and 53-54: the exchange answered without an error
ExchangeReturns ==
    /\ callbackPc = "exchange"
    /\ authLoading' = FALSE
    /\ callbackPc' = "returned"
    /\ callbackLocals' = [callbackLocals EXCEPT !.exchange = "ok"]
    /\ UNCHANGED <<authError, countdown, location, navigatedBy,
                   rendered, effectDeps,
                   timer, authFrame>>

\* lines 38-39: no code in the URL, getSession is awaited
CallbackGetSession ==
    /\ callbackPc = "start"
    /\ StrOr(url.error_description, url.error) = ""
    /\ url.code = ""
    /\ callbackPc' = "getSession"
    /\ callbackLocals' = [callbackLocals EXCEPT !.calls = @ \cup {"getSession"}]
    /\ UNCHANGED <<authLoading, authError, countdown, location, navigatedBy,
                   rendered, effectDeps,
                   timer, authFrame>>

\* lines 39-49 and 53-54: getSession answered, with a session or without
GetSessionReturns ==
    /\ callbackPc = "getSession"
    /\ \E session \in BOOLEAN :
           /\ IF ~session /\ url.hash = ""
              THEN authError' = <<NoCodeMessage>>
              ELSE authError' = authError
           /\ callbackLocals' = [callbackLocals EXCEPT
                                    !.session = IF session THEN "yes" ELSE "no"]
    /\ authLoading' = FALSE
    /\ callbackPc' = "returned"
    /\ UNCHANGED <<countdown, location, navigatedBy, rendered, effectDeps,
                   timer, authFrame>>

\* lines 51-54: an awaited call has thrown
CallbackThrows ==
    /\ callbackPc \in {"exchange", "getSession"}
    /\ \E message \in ThrownErrors : authError' = <<message>>
    /\ authLoading' = FALSE
    /\ callbackPc' = "returned"
    /\ UNCHANGED <<callbackLocals, countdown, location, navigatedBy,
                   rendered, effectDeps,
                   timer, authFrame>>

\* lines 63-65: the interval of the countdown effect fires.  It is set
\* until the effect's cleanup clears it, which the next render comes
\* before
Tick ==
    /\ location = "/auth/callback"
    /\ timer
    /\ rendered.countdown - countdown < MaxLateTicks
    /\ countdown' = countdown - 1
    /\ UNCHANGED <<authLoading, authError, rendered, effectDeps, timer,
                   location, navigatedBy, callbackPc, callbackLocals,
                   authFrame>>

\* lines 8-13 and 72: the component renders with its state, once the
\* effects of the render before have run
Render ==
    /\ location = "/auth/callback"
    /\ rendered = effectDeps
    /\ rendered # ComponentState
    /\ rendered' = ComponentState
    /\ UNCHANGED <<authLoading, authError, countdown, effectDeps, timer,
                   location, navigatedBy, callbackPc, callbackLocals,
                   authFrame>>

\* lines 61-66 and 70: after a render with other loading, error or
\* countdown the effect clears its interval and runs with what was
\* rendered: it sets an interval
EffectSetsInterval ==
    /\ location = "/auth/callback"
    /\ rendered # effectDeps
    /\ TimerRunning(rendered.loading, rendered.error, rendered.countdown)
    /\ timer' = TRUE
    /\ effectDeps' = rendered
    /\ UNCHANGED <<authLoading, authError, countdown, rendered, location,
                   navigatedBy, callbackPc, callbackLocals, authFrame>>

\* lines 61-70: the effect clears its interval and runs with what was
\* rendered: it navigates
AutoNavigate ==
    /\ location = "/auth/callback"
    /\ rendered # effectDeps
    /\ ShouldNavigate(rendered.loading, rendered.error, rendered.countdown)
    /\ timer' = FALSE
    /\ effectDeps' = rendered
    /\ location' = "/?login=true"
    /\ navigatedBy' = "effect"
    /\ UNCHANGED <<authLoading, authError, countdown, rendered, callbackPc,
                   callbackLocals, authFrame>>

\* lines 61-70: the effect clears its interval and runs with what was
\* rendered: neither condition holds
EffectClearsInterval ==
    /\ location = "/auth/callback"
    /\ rendered # effectDeps
    /\ ~TimerRunning(rendered.loading, rendered.error, rendered.countdown)
    /\ ~ShouldNavigate(rendered.loading, rendered.error, rendered.countdown)
    /\ timer' = FALSE
    /\ effectDeps' = rendered
    /\ UNCHANGED <<authLoading, authError, countdown, rendered, location,
                   navigatedBy, callbackPc, callbackLocals, authFrame>>

\* lines 87 and 101-103: the button of the error view, where it is
\* rendered; the page is left and the interval cleared
ClickBackToHome ==
    /\ location = "/auth/callback"
    /\ ~rendered.loading
    /\ ~NoError(rendered.error)
    /\ location' = "/"
    /\ navigatedBy' = "button"
    /\ timer' = FALSE
    /\ UNCHANGED <<authLoading, authError, countdown, rendered, effectDeps,
                   callbackPc, callbackLocals, authFrame>>

\* lines 110 and 124-126: the button of the success view, where it is
\* rendered; the page is left and the interval cleared
ClickLogin ==
    /\ location = "/auth/callback"
    /\ ~rendered.loading
    /\ NoError(rendered.error)
    /\ location' = "/?login=true"
    /\ navigatedBy' = "button"
    /\ timer' = FALSE
    /\ UNCHANGED <<authLoading, authError, countdown, rendered, effectDeps,
                   callbackPc, callbackLocals, authFrame>>

NextAuth ==
    \/ CallbackUrlError
    \/ CallbackExchange
    \/ ExchangeFails
    \/ ExchangeReturns
    \/ CallbackGetSession
    \/ GetSessionReturns
    \/ CallbackThrows
    \/ Tick
    \/ Render
    \/ EffectSetsInterval
    \/ AutoNavigate
    \/ EffectClearsInterval
    \/ ClickBackToHome
    \/ ClickLogin

SpecAuth == InitAuth /\ [][NextAuth]_vars

\* a step of handleCallback
CallbackStep ==
    \/ CallbackUrlError
    \/ CallbackExchange
    \/ ExchangeFails
    \/ ExchangeReturns
    \/ CallbackGetSession
    \/ GetSessionReturns
    \/ CallbackThrows

\* a run of the countdown effect
EffectStep ==
    \/ EffectSetsInterval
    \/ AutoNavigate
    \/ EffectClearsInterval

\* the page with its scheduling: handleCallback runs on, each awaited call
\* is answered or throws, the interval fires while it is set, a changed
\* state is rendered and the effect runs after the render.  Nothing makes
\* the user press a button.
SpecAuthFair ==
    /\ InitAuth
    /\ [][NextAuth]_vars
    /\ WF_vars(CallbackStep)
    /\ WF_vars(Tick)
    /\ WF_vars(Render)
    /\ WF_vars(EffectStep)

(***************************************************************************)
(* The change-request form of the customer calendar                        *)
(* (customer/CustomerDeliveryCalendar.tsx).  Strings that hold dates are   *)
(* tuples: <<>> is the empty string, <<y, m, d>> the value of the date     *)
(* input, <<y, m, d, h>> an ISO timestamp.  The buttons that open the form *)
(* lie under the modal when it is shown, where the keyboard still reaches  *)
(* them.                                                                   *)
(***************************************************************************)
\* the userId prop
UserId == "customer-1"

\* the orders loadOrders has put into the component: one with a confirmed
\* delivery date and one without
CustomerOrders ==
    {[id |-> "order-1",
      created_at |-> [date |-> <<2024, 1, 1>>, hour |-> 12],
      delivery_date |-> [isNull |-> FALSE, date |-> <<2024, 1, 5>>,
                         hasTime |-> FALSE]],
     [id |-> "order-2",
      created_at |-> [date |-> <<2024, 2, 27>>, hour |-> 22],
      delivery_date |-> NullDate]}

\* what the textarea and the date input hand to onChange
TypedReasons == {"", "I am away that week"}
TypedRequestedDates == {<<>>, <<2024, 3, 15>>}

\* lines 169 and 177: what alert() is given
SubmittedMessage == "Change request submitted successfully!"
SubmitFailedMessage == "Failed to submit request"

\* Date.prototype.toISOString
toISOString(t) == YMD(t \div 24) \o <<t % 24>>

\* order.delivery_date as the string the store holds, null as <<>>
DeliveryDateString(o) ==
    IF o.delivery_date.isNull THEN <<>>
    ELSE IF o.delivery_date.hasTime THEN o.delivery_date.date \o <<0>>
    ELSE o.delivery_date.date

\* a || b of two strings
DateOr(a, b) == IF a # <<>> THEN a ELSE b

\* requestedDate || null
OrNull(date) == IF date # <<>> THEN <<date>> ELSE <<>>

\* line 150, negated: the handler goes on to insert
SubmitAccepted(selected, reason) == selected # <<>> /\ reason # ""

\* line 364: the modal is rendered
FormShown == showRequestForm /\ selectedOrder # <<>>

\* the busy days the store holds when the customer calendar mounts
CustomerStoredBusy ==
    {[busy_date |-> <<2024, 2, 28>>, created_by |-> "admin-0"],
     [busy_date |-> <<2024, 3, 2>>, created_by |-> "admin-0"]}

\* lines 24-44: the customer calendar has mounted with its initial state,
\* and the mount effect has called loadOrders, loadBusyDays and
\* loadSettings: the three requests are on their way.  ordersLoad,
\* toggles[0] and mountLoad hold the positions of the three calls.
InitRequest ==
    /\ RequestIdle
    /\ orders = {}
    /\ loading = TRUE
    /\ ordersLoad = "fetching"
    /\ storeBusy = CustomerStoredBusy
    /\ toggles = [h \in 0..MaxToggles |->
                    IF h = 0 THEN [IdleToggle EXCEPT !.pc = "load"]
                    ELSE IdleToggle]
    /\ busyDays = {}
    /\ storeSettings \in StoredAtMount
    /\ mountLoad = "fetching"
    /\ mountAnswer = <<>>
    /\ deliverySettings = [standard_delivery_days |-> DefaultStandardDays,
                           busy_day_penalty_days |-> DefaultPenaltyDays]
    /\ tzOffset \in TzOffsets
    /\ alerts = <<>>
    /\ order = [created_at |-> [date |-> <<2024, 1, 1>>, hour |-> 0],
                delivery_date |-> NullDate]
    /\ pc = "idle"
    /\ locals = NoLocals
    /\ targetDate = 0
    /\ shownOn = <<0, 0, 0>>
    /\ estimateCalls = 0
    /\ firstResult = 0
    /\ editStandardDays = DefaultStandardDays
    /\ editPenaltyDays = DefaultPenaltyDays
    /\ showSettings = FALSE
    /\ saving = FALSE
    /\ saves = [h \in 1..MaxSaves |-> IdleSave]
    /\ edits = 0
    /\ settingsLoaded = FALSE
    /\ AuthIdle

\* what the three loads of the customer calendar leave alone
customerLoadFrame ==
    <<order, tzOffset, pc, locals, targetDate, shownOn, estimateCalls,
      firstResult, storeSettings, editStandardDays, editPenaltyDays,
      showSettings, saving, mountAnswer, saves, edits, storeBusy, alerts,
      authVars, requestVars>>

\* lines 46-58: the orders query has answered with data
CustomerLoadOrdersReturns ==
    /\ ordersLoad = "fetching"
    /\ orders' = CustomerOrders
    /\ loading' = FALSE
    /\ ordersLoad' = "done"
    /\ UNCHANGED <<busyDays, toggles, deliverySettings, mountLoad>>
    /\ UNCHANGED <<settingsLoaded, customerLoadFrame>>

\* lines 48-58: the orders query has answered with an error and no data;
\* only data is read from the answer
CustomerLoadOrdersFails ==
    /\ ordersLoad = "fetching"
    /\ loading' = FALSE
    /\ ordersLoad' = "failed"
    /\ UNCHANGED <<orders, busyDays, toggles, deliverySettings, mountLoad>>
    /\ UNCHANGED <<settingsLoaded, customerLoadFrame>>

\* lines 60-65: getBusyDays has answered.  Nothing of the customer calendar
\* changes the store's busy days or settings, so an answer is what the
\* store holds.
CustomerLoadBusyDaysReturns ==
    /\ toggles[0].pc = "load"
    /\ busyDays' = {d.busy_date : d \in getBusyDays(storeBusy)}
    /\ toggles' = [toggles EXCEPT ![0] = FinishedToggle("none")]
    /\ UNCHANGED <<orders, loading, ordersLoad, deliverySettings, mountLoad>>
    /\ UNCHANGED <<settingsLoaded, customerLoadFrame>>

\* line 61: getBusyDays has thrown; nothing catches it
CustomerLoadBusyDaysFails ==
    /\ toggles[0].pc = "load"
    /\ toggles' = [toggles EXCEPT ![0] = FailedToggle("none")]
    /\ UNCHANGED <<orders, loading, ordersLoad, busyDays, deliverySettings,
                   mountLoad>>
    /\ UNCHANGED <<settingsLoaded, customerLoadFrame>>

\* lines 67-70: getDeliverySettings has answered
CustomerLoadSettingsReturns ==
    /\ mountLoad = "fetching"
    /\ deliverySettings' = getDeliverySettings(storeSettings)
    /\ settingsLoaded' = TRUE
    /\ mountLoad' = "done"
    /\ UNCHANGED <<orders, loading, ordersLoad, busyDays, toggles>>
    /\ UNCHANGED customerLoadFrame

\* line 68: getDeliverySettings has thrown; nothing catches it
CustomerLoadSettingsFails ==
    /\ mountLoad = "fetching"
    /\ mountLoad' = "failed"
    /\ UNCHANGED <<orders, loading, ordersLoad, busyDays, toggles,
                   deliverySettings>>
    /\ UNCHANGED <<settingsLoaded, customerLoadFrame>>

\* what the form leaves alone
requestFrame == <<estVars, adminVars, deliverySettings, toggleVars, authVars>>

\* lines 265-271: Request Date Change on a delivery of the selected date
RequestDateChange ==
    /\ ~loading
    /\ \E o \in orders :
           /\ selectedOrder' = <<o>>
           /\ requestedDate' =
                  DateOr(DeliveryDateString(o),
                         toISOString(CustomerCalculateEstimate(
                             o.created_at, tzOffset, busyDays,
                             deliverySettings)))
    /\ showRequestForm' = TRUE
    /\ UNCHANGED <<requestReason, submitting, submit, requests, alerts,
                   requestFrame>>

\* lines 307-313: Request Change on an order with a confirmed delivery
RequestChangeConfirmed ==
    /\ ~loading
    /\ \E o \in {c \in orders : ~c.delivery_date.isNull} :
           /\ selectedOrder' = <<o>>
           /\ requestedDate' = DateOr(DeliveryDateString(o), <<>>)
    /\ showRequestForm' = TRUE
    /\ UNCHANGED <<requestReason, submitting, submit, requests, alerts,
                   requestFrame>>

\* lines 341-347: Request Change on an order with an estimated delivery
RequestChangeEstimated ==
    /\ ~loading
    /\ \E o \in {c \in orders : c.delivery_date.isNull} :
           /\ selectedOrder' = <<o>>
           /\ requestedDate' =
                  toISOString(CustomerCalculateEstimate(
                      o.created_at, tzOffset, busyDays, deliverySettings))
    /\ showRequestForm' = TRUE
    /\ UNCHANGED <<requestReason, submitting, submit, requests, alerts,
                   requestFrame>>

\* lines 398-400: onChange of the reason
EditReason ==
    /\ FormShown
    /\ \E text \in TypedReasons : requestReason' = text
    /\ UNCHANGED <<selectedOrder, showRequestForm, requestedDate, submitting,
                   submit, requests, alerts, requestFrame>>

\* lines 384-387: onChange of the date input
EditRequestedDate ==
    /\ FormShown
    /\ \E text \in TypedRequestedDates : requestedDate' = text
    /\ UNCHANGED <<selectedOrder, showRequestForm, requestReason, submitting,
                   submit, requests, alerts, requestFrame>>

\* lines 409-411 and 149-166: a click on Submit Request, disabled without
\* a reason and while submitting, runs handleSubmitRequest up to its await
\* of the insert
SubmitClick ==
    /\ FormShown
    /\ requestReason # ""
    /\ ~submitting
    /\ Len(alerts) < MaxSubmits
    /\ SubmitAccepted(selectedOrder, requestReason)
    /\ submitting' = TRUE
    /\ submit' = [pc |-> "insert",
                  row |-> <<[order_id |-> selectedOrder[1].id,
                             customer_id |-> UserId,
                             requested_date |-> OrNull(requestedDate),
                             reason |-> requestReason,
                             status |-> "pending"]>>]
    /\ UNCHANGED <<selectedOrder, showRequestForm, requestReason,
                   requestedDate, requests, alerts, requestFrame>>

\* lines 167-174 and 178-179: the store has taken the row
SubmitReturns ==
    /\ submit.pc = "insert"
    /\ requests' = Append(requests, submit.row[1])
    /\ alerts' = Append(alerts, SubmittedMessage)
    /\ showRequestForm' = FALSE
    /\ selectedOrder' = <<>>
    /\ requestReason' = ""
    /\ requestedDate' = <<>>
    /\ submitting' = FALSE
    /\ submit' = NoSubmit
    /\ UNCHANGED requestFrame

\* the variant that clears the form on failure as well
SubmitFails_ResetsForm ==
    /\ submit.pc = "insert"
    /\ alerts' = Append(alerts, SubmitFailedMessage)
    /\ showRequestForm' = FALSE
    /\ selectedOrder' = <<>>
    /\ requestReason' = ""
    /\ requestedDate' = <<>>
    /\ submitting' = FALSE
    /\ submit' = NoSubmit
    /\ UNCHANGED <<requests, requestFrame>>

\* lines 167 and 175-179: the insert answered with an error or threw
SubmitFails ==
    /\ submit.pc = "insert"
    /\ alerts' = Append(alerts, SubmitFailedMessage)
    /\ submitting' = FALSE
    /\ submit' = NoSubmit
    /\ UNCHANGED <<selectedOrder, showRequestForm, requestReason,
                   requestedDate, requests, requestFrame>>

\* the variant that clears the order and leaves the form flag set
CancelRequest_KeepsFormFlag ==
    /\ FormShown
    /\ ~submitting
    /\ selectedOrder' = <<>>
    /\ requestReason' = ""
    /\ requestedDate' = <<>>
    /\ UNCHANGED <<showRequestForm, submitting, submit, requests, alerts,
                   requestFrame>>

\* lines 416-423: the Cancel button, disabled while submitting
CancelRequest ==
    /\ FormShown
    /\ ~submitting
    /\ showRequestForm' = FALSE
    /\ selectedOrder' = <<>>
    /\ requestReason' = ""
    /\ requestedDate' = <<>>
    /\ UNCHANGED <<submitting, submit, requests, alerts, requestFrame>>

NextRequest ==
    \/ CustomerLoadOrdersReturns
    \/ CustomerLoadOrdersFails
    \/ CustomerLoadBusyDaysReturns
    \/ CustomerLoadBusyDaysFails
    \/ CustomerLoadSettingsReturns
    \/ CustomerLoadSettingsFails
    \/ RequestDateChange
    \/ RequestChangeConfirmed
    \/ RequestChangeEstimated
    \/ EditReason
    \/ EditRequestedDate
    \/ SubmitClick
    \/ SubmitReturns
    \/ SubmitFails
    \/ CancelRequest

SpecRequest == InitRequest /\ [][NextRequest]_vars

(***************************************************************************)
(* What the claims speak of.  The civil dates of an order are the viewer's *)
(* local ones: the components read the placement day of an order           *)
(* (getOrdersForDate, admin lines 137-142) and the day of its delivery     *)
(* (lines 160-164) with the local getters.                                 *)
(***************************************************************************)
\* the day number of the order's placement date
PlacementDay == LocalDay(ParseTimestamp(order.created_at), tzOffset)

\* the provisional delivery day: placement date + standardDeliveryDays
ProvisionalDay == PlacementDay + deliverySettings.standard_delivery_days

\* a day number as <<getFullYear, getMonth, getDate>> read it
CivilOfDay(day) == <<YMD(day)[1], YMD(day)[2] - 1, YMD(day)[3]>>

\* how many of the days lo..hi are in the busy-day set busy
BusyIn(busy, lo, hi) == Cardinality({d \in lo..hi : YMD(d) \in busy})

\* the callback has finished, and the date came from calculateEstimate
Estimated == pc = "done" /\ estimateCalls = 1

\* the settings are a DeliverySettings of the data model: both positive
PositiveSettings ==
    /\ deliverySettings.standard_delivery_days >= 1
    /\ deliverySettings.busy_day_penalty_days >= 1

\* busyDayCount of a run of calculateEstimate on the order, had the
\* busy-day set been busy
CountWith(busy) ==
    EstimateLoop(EstimateBegin(order.created_at, tzOffset, deliverySettings),
                 tzOffset, busy).busyDayCount

\* C1: the estimate is placement date + standardDeliveryDays +
\* k * busyDayPenaltyDays, k the number of busy days d with
\* placement date < d <= placement date + standardDeliveryDays.
C1_EstimateIsStandardPlusPenalty ==
    (Estimated /\ PositiveSettings) =>
        shownOn = CivilOfDay(ProvisionalDay
                     + BusyIn(busyDays, PlacementDay + 1, ProvisionalDay)
                       * deliverySettings.busy_day_penalty_days)

\* C2: for a fixed civil placement date, busy-day set and settings, the
\* estimated civil delivery date is the same for every time of day of the
\* placement timestamp and every timezone offset of the viewer.
C2_SameForEveryTimeAndZone ==
    (Estimated /\ PositiveSettings) =>
        \A tz \in TzOffsets, h \in CreatedHours, shift \in {-1, 0, 1} :
            LET c == [date |-> YMD(PlacementDay + shift), hour |-> h]
            IN  LocalDay(ParseTimestamp(c), tz) = PlacementDay
                  => getCivil(calculateEstimate(c, tz, busyDays,
                                                deliverySettings), tz)
                       = shownOn

\* C3: a busy day after placement date + standardDeliveryDays never adds
\* penalty days: the estimate is the one of the busy-day set without the
\* days after the provisional date.
C3_ExtensionAddsNoPenalty ==
    (Estimated /\ PositiveSettings) =>
        getCivil(calculateEstimate(order.created_at, tzOffset,
                     {b \in busyDays : DayOfYMD(b) <= ProvisionalDay},
                     deliverySettings), tzOffset)
          = shownOn

\* C4: a busy day on the provisional delivery date counts toward the
\* penalty, and a busy day on the placement date itself does not count.
C4_WindowBoundaries ==
    (Estimated /\ PositiveSettings) =>
        /\ YMD(ProvisionalDay) \in busyDays
             => locals.busyDayCount
                  = CountWith(busyDays \ {YMD(ProvisionalDay)}) + 1
        /\ locals.busyDayCount = CountWith(busyDays \ {YMD(PlacementDay)})

\* C5: with an empty busy-day set the estimate is exactly placement date +
\* standardDeliveryDays, for every placement timestamp and settings pair.
C5_EmptyBusyDaysNoPenalty ==
    (Estimated /\ busyDays = {}) => shownOn = CivilOfDay(ProvisionalDay)

\* an estimate was made with no busy day, at a time of day and offset that
\* put the viewer's date on another day than the UTC date
C5_Witness ==
    /\ Estimated
    /\ busyDays = {}
    /\ deliverySettings.standard_delivery_days = MaxStd
    /\ PlacementDay # ParseTimestamp(order.created_at) \div 24
    /\ shownOn = CivilOfDay(PlacementDay + MaxStd)

\* C6: everything else fixed, the estimate is non-decreasing in
\* busyDayPenaltyDays, and non-decreasing in the number of busy days inside
\* the initial standard window.
C6_Monotone ==
    (Estimated /\ PositiveSettings) =>
        /\ \A p \in 1..MaxPen :
               p >= deliverySettings.busy_day_penalty_days
                 => calculateEstimate(order.created_at, tzOffset, busyDays,
                        [deliverySettings EXCEPT !.busy_day_penalty_days = p])
                      >= targetDate
        /\ \A b \in SUBSET BusyCandidates(order.created_at) :
               BusyIn(b, PlacementDay + 1, ProvisionalDay)
                   >= BusyIn(busyDays, PlacementDay + 1, ProvisionalDay)
                 => calculateEstimate(order.created_at, tzOffset, b,
                                      deliverySettings) >= targetDate

\* C7: an order with a confirmed delivery_date is a delivery of the civil
\* date of delivery_date, whatever the busy days and the settings, and
\* calculateEstimate runs only for an order without delivery_date.
C7_ConfirmedDateBypassesEstimator ==
    /\ estimateCalls > 0 => order.delivery_date.isNull
    /\ (pc = "done" /\ ~order.delivery_date.isNull) =>
           /\ estimateCalls = 0
           /\ shownOn = <<order.delivery_date.date[1],
                          order.delivery_date.date[2] - 1,
                          order.delivery_date.date[3]>>

\* an order with a confirmed date was placed on its day, west of UTC, with
\* busy days present
C7_Witness ==
    /\ pc = "done"
    /\ ~order.delivery_date.isNull
    /\ order.delivery_date.hasTime
    /\ busyDays # {}
    /\ tzOffset < 0
    /\ shownOn = <<2024, 2, 1>>

\* C8: calculateEstimate fails with InvalidSettings, and returns no date,
\* whenever standardDeliveryDays or busyDayPenaltyDays is zero or negative.
C8_InvalidSettingsRejected ==
    (estimateCalls > 0
       /\ (deliverySettings.standard_delivery_days <= 0
             \/ deliverySettings.busy_day_penalty_days <= 0))
      => pc \notin {"compare", "done"}

\* C9: every updateDeliverySettings request handleSaveSettings issues
\* carries a standard-delivery value within [1, 30] and a busy-day-penalty
\* value within [1, 10], whatever was typed into the two inputs.
C9_UpdateRequestWithinBounds ==
    \A h \in 1..MaxSaves :
        saves[h].pc = "update" =>
            /\ saves[h].std \in MinStandardDays..MaxStandardDays
            /\ saves[h].pen \in MinPenaltyDays..MaxPenaltyDays

\* C10: both fields of deliverySettings are positive in every state of the
\* calendar component, and they are {3, 1} until a settings load replaces
\* them.
C10_SettingsAlwaysPositive ==
    /\ deliverySettings.standard_delivery_days > 0
    /\ deliverySettings.busy_day_penalty_days > 0
    /\ ~settingsLoaded =>
           deliverySettings = [standard_delivery_days |-> DefaultStandardDays,
                               busy_day_penalty_days |-> DefaultPenaltyDays]

\* max(0, n)
Max0(n) == IF n > 0 THEN n ELSE 0

\* C11: with standardDeliveryDays 0 no date is scanned, no penalty is
\* applied whatever the busy-day set is, and the result is the placement
\* date.
C11_ZeroStandardDays ==
    (Estimated /\ deliverySettings.standard_delivery_days = 0) =>
        /\ locals.iterations = 0
        /\ locals.busyDayCount = 0
        /\ shownOn = CivilOfDay(PlacementDay)

\* an estimate with standardDeliveryDays 0 was made while the placement date
\* and the day after it were busy
C11_Witness ==
    /\ Estimated
    /\ deliverySettings.standard_delivery_days = 0
    /\ deliverySettings.busy_day_penalty_days >= 1
    /\ YMD(PlacementDay) \in busyDays
    /\ YMD(PlacementDay + 1) \in busyDays
    /\ shownOn = CivilOfDay(PlacementDay)

\* C12: a step of calculateEstimate changes none of the order, busyDays,
\* deliverySettings or the other component state, and a second call on the
\* same created_at returns the date the first one returned.
C12_EstimateIsPure ==
    /\ [][(locals' # locals \/ estimateCalls' # estimateCalls)
            => UNCHANGED <<order, tzOffset, busyDays, deliverySettings,
                           orders, loading, alerts, adminVars>>]_vars
    /\ []((estimateCalls = 2 /\ pc \in {"compare", "done"})
            => targetDate = firstResult)

\* the second call has returned, after scans that counted busy days
C12_Witness ==
    /\ estimateCalls = 2
    /\ pc = "done"
    /\ locals.busyDayCount >= 2
    /\ deliverySettings.busy_day_penalty_days >= 1
    /\ targetDate = firstResult

C17_SameEstimatorInBothCalendars ==
    /\ (estimateCalls >= 1 /\ pc \in {"compare", "done"}) =>
           targetDate = CustomerCalculateEstimate(order.created_at, tzOffset,
                                                  busyDays, deliverySettings)
    /\ pc = "done" =>
           shownOn = getCivil(CustomerTargetDate(order, tzOffset, busyDays,
                                                 deliverySettings), tzOffset)

\* an estimate with two busy days counted, away from UTC, and an order with
\* a confirmed date, are what the admin calendar has finished
C17_Witness ==
    /\ Estimated
    /\ tzOffset # 0
    /\ locals.busyDayCount >= 2
    /\ deliverySettings.busy_day_penalty_days = MaxPen
    /\ targetDate = CustomerCalculateEstimate(order.created_at, tzOffset,
                                              busyDays, deliverySettings)

\* C19: at most one updateDeliverySettings request is in flight at any
\* time.
C19_OneUpdateInFlight ==
    Cardinality({h \in DOMAIN saves : saves[h].pc = "update"}) <= 1

\* the dates of the store's rows
StoredDates == {row.busy_date : row \in storeBusy}

\* C13: a toggleBusyDay request goes out only with the id of a signed-in
\* user; a handleToggleBusyDay call that getUser answers without a user
\* returns without a toggle and without a re-fetch, the store's rows,
\* busyDays and all other component state unchanged.
C13_ToggleOnlyWithUser ==
    /\ [](\A h \in 1..MaxToggles :
              toggles[h].pc = "toggle" => toggles[h].user = SessionUser)
    /\ [](\A row \in storeBusy : row.created_by # "none")
    /\ [][\A h \in 1..MaxToggles :
              (/\ toggles[h].pc = "getUser"
               /\ toggles'[h].pc # "getUser"
               /\ toggles'[h].user = "none") =>
                  /\ toggles'[h].pc = "finished"
                  /\ \A g \in 0..MaxToggles : g # h => toggles'[g] = toggles[g]
                  /\ UNCHANGED <<storeBusy, busyDays, orders, loading, alerts,
                                 deliverySettings, adminVars>>]_vars

\* one call has returned for want of a user, another has toggled a date with
\* the user's id and re-fetched
C13_Witness ==
    /\ \E h \in 1..MaxToggles :
           toggles[h].pc = "finished" /\ toggles[h].user = "none"
    /\ \E h \in 1..MaxToggles :
           toggles[h].pc = "finished" /\ toggles[h].user = SessionUser
    /\ \E row \in storeBusy : row.created_by = SessionUser
    /\ busyDays = StoredDates

\* a store call fails in this step
StoreCallFails ==
    \/ ordersLoad # "failed" /\ ordersLoad' = "failed"
    \/ mountLoad # "failed" /\ mountLoad' = "failed"
    \/ \E h \in 0..MaxToggles :
           toggles[h].pc # "failed" /\ toggles'[h].pc = "failed"
    \/ \E h \in 1..MaxSaves :
           saves[h].pc # "failed" /\ saves'[h].pc = "failed"

\* this step shows the failure message
ErrorSurfaced == alerts' = Append(alerts, FailedMessage)

\* this step starts a load of orders, busy days or settings
RefetchStarted ==
    \/ ordersLoad # "fetching" /\ ordersLoad' = "fetching"
    \/ mountLoad # "fetching" /\ mountLoad' = "fetching"
    \/ \E h \in 0..MaxToggles :
           toggles[h].pc # "load" /\ toggles'[h].pc = "load"
    \/ \E h \in 1..MaxSaves : saves[h].pc # "load" /\ saves'[h].pc = "load"

\* C14: a step in which a store call fails (loading orders, busy days or
\* settings, toggling a busy day, updating the settings) shows an error or
\* starts a re-fetch.
C14_NoFailureDropped ==
    [][StoreCallFails => (ErrorSurfaced \/ RefetchStarted)]_vars

\* C16: a toggleBusyDay call that returns is followed at once by a
\* loadBusyDays call, and handleToggleBusyDay finishes only out of getUser
\* or out of that loadBusyDays; an updateDeliverySettings call that returns
\* is followed at once by loadSettings, and the step of handleSaveSettings
\* that closes the modal or announces success is the one in which that
\* loadSettings sets the component's settings from the answer the store has
\* given it.
C16_RefetchAfterMutation ==
    [][/\ \A h \in 1..MaxToggles :
              /\ (toggles[h].pc = "toggle" /\ toggles'[h].pc # "toggle") =>
                     \/ toggles'[h].pc = "load"
                     \/ toggles'[h].pc = "failed" /\ storeBusy' = storeBusy
              /\ (toggles[h].pc # "finished" /\ toggles'[h].pc = "finished") =>
                     toggles[h].pc \in {"getUser", "answered"}
       /\ \A h \in 1..MaxSaves :
              /\ (saves[h].pc = "update" /\ saves'[h].pc # "update") =>
                     \/ saves'[h].pc = "load"
                     \/ saves'[h].pc = "failed" /\ storeSettings' = storeSettings
              /\ (/\ saves'[h] # saves[h]
                  /\ \/ showSettings /\ ~showSettings'
                     \/ alerts' = Append(alerts, UpdatedMessage)) =>
                     /\ saves[h].pc = "answered"
                     /\ saves'[h].pc = "finished"
                     /\ deliverySettings' = saves[h].settings[1]
                     /\ ~showSettings'
                     /\ alerts' = Append(alerts, UpdatedMessage)]_vars

\* a save has closed the modal and announced success, and the component
\* holds the settings the update has put into the store
C16_Witness ==
    /\ alerts # <<>>
    /\ alerts[Len(alerts)] = UpdatedMessage
    /\ ~showSettings
    /\ storeSettings \notin StoredAtMount
    /\ deliverySettings = storeSettings[1]

\* C18: once every handleToggleBusyDay call started has finished (and the
\* mount's loadBusyDays before them), none of them having failed, busyDays
\* holds the dates of the store's rows.
C18_BusyDaysMatchStore ==
    (/\ \A h \in 0..MaxToggles : toggles[h].pc \in {"idle", "finished"}
     /\ toggles[0].pc = "finished"
     /\ \E h \in 1..MaxToggles : toggles[h].pc = "finished") =>
        busyDays = StoredDates

\* C20: the countdown effect navigates, to '/?login=true', only out of a
\* state with loading false, error null and countdown 0; while error is set
\* or loading is true the effect does not navigate and countdown does not
\* change; countdown is always one of 0..5.
C20_AutoNavigateOnlyAtZero ==
    /\ [](countdown \in 0..CountdownStart)
    /\ [][(navigatedBy # "effect" /\ navigatedBy' = "effect") =>
              /\ ~authLoading
              /\ authError = <<>>
              /\ countdown = 0
              /\ location' = "/?login=true"]_vars
    /\ [][(authLoading \/ authError # <<>>) =>
              /\ countdown' = countdown
              /\ navigatedBy' # "effect"]_vars

\* the URL holds an error or an error_description parameter
UrlHasError == url.error_description # "" \/ url.error # ""

LeavesLoadingAndCountsByOne ==
    /\ <>(~authLoading)
    /\ [][countdown' # countdown =>
              /\ countdown' = countdown - 1
              /\ ~authLoading
              /\ authError = <<>>]_vars

\* C22: on every path handleCallback leaves the loading state; the
\* countdown goes down by one per firing of the interval; and once loading
\* is false with no error the page eventually goes to '/?login=true' (by
\* the effect, as the claim has it, or by the button of the success view).
C22_NavigationHappens ==
    /\ LeavesLoadingAndCountsByOne
    /\ (~authLoading /\ authError = <<>>) ~> (location = "/?login=true")

\* the ids of the customer's orders
OrderIds == {o.id : o \in CustomerOrders}

\* a row handleSubmitRequest may insert
WellFormedRequest(row) ==
    /\ row.status = "pending"
    /\ row.customer_id = UserId
    /\ row.reason # ""
    /\ row.order_id \in OrderIds

\* C23: handleSubmitRequest inserts only with an order selected and a
\* reason, always with status 'pending' and the userId as customer; a
\* failed insert leaves the form open and selectedOrder, requestReason and
\* requestedDate as they are; a successful one resets all four; both set
\* submitting to false.
C23_SubmitRequest ==
    /\ [](\A i \in 1..Len(requests) : WellFormedRequest(requests[i]))
    /\ [](submit.pc = "insert" => WellFormedRequest(submit.row[1]))
    /\ [][(submit.pc = "idle" /\ submit'.pc = "insert") =>
              /\ selectedOrder # <<>>
              /\ requestReason # ""
              /\ submit'.row[1].order_id = selectedOrder[1].id
              /\ submit'.row[1].reason = requestReason
              /\ submit'.row[1].requested_date = OrNull(requestedDate)]_vars
    /\ [][(submit.pc = "insert" /\ submit'.pc = "idle"
             /\ requests' = requests) =>
              /\ showRequestForm /\ showRequestForm'
              /\ UNCHANGED <<selectedOrder, requestReason, requestedDate>>
              /\ alerts' = Append(alerts, SubmitFailedMessage)
              /\ ~submitting']_vars
    /\ [][requests' # requests =>
              /\ requests' = Append(requests, submit.row[1])
              /\ ~showRequestForm'
              /\ selectedOrder' = <<>>
              /\ requestReason' = ""
              /\ requestedDate' = <<>>
              /\ ~submitting']_vars

\* a submit has put its row into the store and cleared the form
C23_Witness ==
    /\ alerts = <<SubmittedMessage>>
    /\ Len(requests) = 1
    /\ requests[1].requested_date # <<>>
    /\ ~showRequestForm
    /\ selectedOrder = <<>>
    /\ ~submitting

\* C24: whenever showRequestForm is true an order is selected; a step that
\* opens the form selects an order, and a step that clears selectedOrder
\* closes the form.
C24_FormHasOrder ==
    /\ [](showRequestForm => selectedOrder # <<>>)
    /\ [][(~showRequestForm /\ showRequestForm') => selectedOrder' # <<>>]_vars
    /\ [][(selectedOrder # <<>> /\ selectedOrder' = <<>>) =>
              ~showRequestForm']_vars

\* the form is open on an order while a submit is on its way
C24_Witness ==
    /\ showRequestForm
    /\ selectedOrder # <<>>
    /\ submitting
    /\ submit.pc = "insert"

====
